---- MODULE Spec2Model ----
(***************************************************************************)
(* Model of package keyvalue (src/keyvalue/keyvalue.go): the Key-Value     *)
(* Form Encoding of OpenID Authentication 2.0.                             *)
(*                                                                         *)
(* A Go string is a sequence of bytes (0..255).  A Form is a Go map from   *)
(* string to string, which may be nil.  A SignedForm is a Form plus the    *)
(* ordered list Fields.  Ranging over a Go map visits the entries in an    *)
(* order the language leaves unspecified and the runtime randomises on     *)
(* every range statement: each range is a nondeterministic choice of a     *)
(* permutation of the keys.                                                *)
(***************************************************************************)
EXTENDS Integers, Sequences, FiniteSets, TLC

VARIABLES
  f,        \* the Form: [nil |-> BOOLEAN, kv |-> function from keys to values]
  Fields,   \* SignedForm.Fields: sequence of strings
  op,       \* name of the last method called ("init" before any call)
  arg,      \* key argument of the last Get call
  ret,      \* string returned by the last call (<<>> when it returns none)
  err,      \* error returned by the last Validate call ("nil" = no error)
  prev,     \* {r} when the call before this one was String() on the same
            \* unmodified Form and returned r, {} otherwise
  panicked, \* TRUE once a call has aborted with a run-time panic
  lastSet   \* history: key -> value of the most recent Set(key, v) that was
            \* not followed by Del(key); keys with no such Set are absent

vars == <<f, Fields, op, arg, ret, err, prev, panicked, lastSet>>

-----------------------------------------------------------------------------
(* Bounds of the model.                                                    *)

\* Total number of key and value bytes of a Form.
MaxBytes == 3
\* Number of entries of a Form.
MaxEntries == 2
\* Length of the Fields list.
MaxFields == 2

-----------------------------------------------------------------------------
(* Program constants.                                                      *)

colon == 58
comma == 44
newline == <<10>>
\* "openid."
prefix == <<111, 112, 101, 110, 105, 100, 46>>

-----------------------------------------------------------------------------
(* Strings and maps.                                                       *)

RECURSIVE StrsOfLen(_, _)
StrsOfLen(A, n) ==
  IF n = 0 THEN {<<>>}
  ELSE {Append(s, b) : s \in StrsOfLen(A, n - 1), b \in A}

StrsUpTo(A, n) == UNION {StrsOfLen(A, i) : i \in 0..n}

\* The empty map.
EmptyKV == [k \in {} |-> <<>>]

\* Variant of map assignment that keeps the value of a key already present.
PutIfAbsent(m, k, v) ==
  [x \in (DOMAIN m) \cup {k} |-> IF x \in DOMAIN m THEN m[x] ELSE v]

\* m[k] = v (Go map assignment).
Put(m, k, v) == [x \in (DOMAIN m) \cup {k} |-> IF x = k THEN v ELSE m[x]]

\* delete(m, k)
Remove(m, k) == [x \in (DOMAIN m) \ {k} |-> m[x]]

RECURSIVE SumOver(_, _)
SumOver(S, m) ==
  IF S = {} THEN 0
  ELSE LET k == CHOOSE x \in S : TRUE
       IN  Len(k) + Len(m[k]) + SumOver(S \ {k}, m)

\* Number of key and value bytes of a map.
Cost(m) == SumOver(DOMAIN m, m)

\* The orders in which a range statement can visit the keys of a map.
Orders(m) ==
  LET n == Cardinality(DOMAIN m)
  IN  {o \in [1..n -> DOMAIN m] : \A i, j \in 1..n : i # j => o[i] # o[j]}

RECURSIVE Concat(_)
Concat(ss) == IF ss = <<>> THEN <<>> ELSE Head(ss) \o Concat(Tail(ss))

-----------------------------------------------------------------------------
(* unicode/utf8 and unicode, as called by Validate.                        *)

RuneError == 65533

Cont(s, i) == i <= Len(s) /\ s[i] \in 128..191

\* Length of the well-formed UTF-8 sequence that starts at s[i]; 0 if none.
SeqLenAt(s, i) ==
  LET b == s[i] IN
  IF b < 128 THEN 1
  ELSE IF b \in 194..223 THEN (IF Cont(s, i + 1) THEN 2 ELSE 0)
  ELSE IF b \in 224..239 THEN
    (IF /\ i + 2 <= Len(s)
        /\ s[i + 1] \in (IF b = 224 THEN 160..191
                         ELSE IF b = 237 THEN 128..159 ELSE 128..191)
        /\ Cont(s, i + 2)
     THEN 3 ELSE 0)
  ELSE IF b \in 240..244 THEN
    (IF /\ i + 3 <= Len(s)
        /\ s[i + 1] \in (IF b = 240 THEN 144..191
                         ELSE IF b = 244 THEN 128..143 ELSE 128..191)
        /\ Cont(s, i + 2)
        /\ Cont(s, i + 3)
     THEN 4 ELSE 0)
  ELSE 0

\* The rune a well-formed sequence of n bytes at s[i] encodes.
RuneAt(s, i, n) ==
  IF n = 1 THEN s[i]
  ELSE IF n = 2 THEN (s[i] - 192) * 64 + (s[i + 1] - 128)
  ELSE IF n = 3 THEN
    (s[i] - 224) * 4096 + (s[i + 1] - 128) * 64 + (s[i + 2] - 128)
  ELSE (s[i] - 240) * 262144 + (s[i + 1] - 128) * 4096
         + (s[i + 2] - 128) * 64 + (s[i + 3] - 128)

RECURSIVE ValidFrom(_, _)
ValidFrom(s, i) ==
  IF i > Len(s) THEN TRUE
  ELSE LET n == SeqLenAt(s, i)
       IN  IF n = 0 THEN FALSE ELSE ValidFrom(s, i + n)

\* utf8.ValidString
ValidString(s) == ValidFrom(s, 1)

\* utf8.DecodeRuneInString: <<rune, size>>
DecodeRuneInString(s) ==
  IF Len(s) = 0 THEN <<RuneError, 0>>
  ELSE LET n == SeqLenAt(s, 1)
       IN  IF n = 0 THEN <<RuneError, 1>> ELSE <<RuneAt(s, 1, n), n>>

\* utf8.RuneStart
RuneStart(b) == b \notin 128..191

\* utf8.DecodeLastRuneInString: <<rune, size>>
DecodeLastRuneInString(s) ==
  LET end == Len(s) IN
  IF end = 0 THEN <<RuneError, 0>>
  ELSE IF s[end] < 128 THEN <<s[end], 1>>
  ELSE
    LET lim   == IF end - 4 < 0 THEN 0 ELSE end - 4
        \* 0-based offsets start with lim <= start <= end-2 and RuneStart
        found == {p \in lim..(end - 2) : RuneStart(s[p + 1])}
        st0   == IF found = {} THEN lim - 1
                 ELSE CHOOSE p \in found : \A q \in found : q <= p
        start == IF st0 < 0 THEN 0 ELSE st0
        d     == DecodeRuneInString(SubSeq(s, start + 1, end))
    IN  IF start + d[2] # end THEN <<RuneError, 1>> ELSE d

\* unicode.IsSpace
IsSpace(r) ==
  r \in {9, 10, 11, 12, 13, 32, 133, 160, 5760, 8232, 8233, 8239, 8287, 12288}
        \cup (8192..8202)

\* strings.ContainsRune for a rune below utf8.RuneSelf
ContainsRune(s, r) == \E i \in 1..Len(s) : s[i] = r

-----------------------------------------------------------------------------
(* The methods of Form and SignedForm, as functions of their inputs.       *)

NilForm == [nil |-> TRUE, kv |-> EmptyKV]

MakeForm(m) == [nil |-> FALSE, kv |-> m]

\* len(f)
FormLen(F) == Cardinality(DOMAIN F.kv)

\* Form.Get
FormGet(F, key) ==
  IF F.nil THEN <<>>
  ELSE IF key \notin DOMAIN F.kv \/ Len(F.kv[key]) = 0 THEN <<>>
  ELSE F.kv[key]

\* Variant of the loop body of Validate that decodes the first rune of the
\* value in both white space checks of the value.
CheckEntryFirstRuneTwice(k, v) ==
  IF Len(v) = 0 THEN "EmptyValue"
  ELSE IF ~ValidString(k) THEN "InvalidKey"
  ELSE IF ~ValidString(v) THEN "InvalidValue"
  ELSE IF ContainsRune(k, 10) \/ ContainsRune(k, colon) THEN "KeyNewlineOrColon"
  ELSE IF IsSpace(DecodeLastRuneInString(k)[1]) THEN "KeyEndsWithSpace"
  ELSE IF IsSpace(DecodeRuneInString(k)[1]) THEN "KeyBeginsWithSpace"
  ELSE IF IsSpace(DecodeRuneInString(v)[1]) THEN "ValueEndsWithSpace"
  ELSE IF IsSpace(DecodeRuneInString(v)[1]) THEN "ValueBeginsWithSpace"
  ELSE "nil"

\* Variant of the loop body of Validate that rejects the empty key.
CheckEntryRejectsEmptyKey(k, v) ==
  IF Len(v) = 0 THEN "EmptyValue"
  ELSE IF Len(k) = 0 THEN "EmptyKey"
  ELSE IF ~ValidString(k) THEN "InvalidKey"
  ELSE IF ~ValidString(v) THEN "InvalidValue"
  ELSE IF ContainsRune(k, 10) \/ ContainsRune(k, colon) THEN "KeyNewlineOrColon"
  ELSE IF IsSpace(DecodeLastRuneInString(k)[1]) THEN "KeyEndsWithSpace"
  ELSE IF IsSpace(DecodeRuneInString(k)[1]) THEN "KeyBeginsWithSpace"
  ELSE IF IsSpace(DecodeLastRuneInString(v)[1]) THEN "ValueEndsWithSpace"
  ELSE IF IsSpace(DecodeRuneInString(v)[1]) THEN "ValueBeginsWithSpace"
  ELSE "nil"

\* Body of the loop of Form.Validate: the error returned for one entry.
CheckEntry(k, v) ==
  IF Len(v) = 0 THEN "EmptyValue"
  ELSE IF ~ValidString(k) THEN "InvalidKey"
  ELSE IF ~ValidString(v) THEN "InvalidValue"
  ELSE IF ContainsRune(k, 10) \/ ContainsRune(k, colon) THEN "KeyNewlineOrColon"
  ELSE IF IsSpace(DecodeLastRuneInString(k)[1]) THEN "KeyEndsWithSpace"
  ELSE IF IsSpace(DecodeRuneInString(k)[1]) THEN "KeyBeginsWithSpace"
  ELSE IF IsSpace(DecodeLastRuneInString(v)[1]) THEN "ValueEndsWithSpace"
  ELSE IF IsSpace(DecodeRuneInString(v)[1]) THEN "ValueBeginsWithSpace"
  ELSE "nil"

\* Form.Validate, ranging over the map in order o: the first error met.
RECURSIVE ValidateFrom(_, _, _)
ValidateFrom(m, o, i) ==
  IF i > Len(o) THEN "nil"
  ELSE LET e == CheckEntry(o[i], m[o[i]])
       IN  IF e # "nil" THEN e ELSE ValidateFrom(m, o, i + 1)

FormValidate(F, o) == ValidateFrom(F.kv, o, 1)

\* First loop of Form.String: the size the buffer is grown to.
StringSize(F) == Cost(F.kv) + (1 + Len(newline)) * FormLen(F)

\* One line written by the second loop of Form.String.
Line(k, v) == k \o <<colon>> \o v \o newline

\* Variant of String that writes the value with Get's result and skips the
\* entries for which it is empty.
FormStringSkipEmpty(F, o) ==
  IF F.nil \/ FormLen(F) = 0 THEN <<>>
  ELSE Concat([i \in 1..Len(o) |->
                 IF FormGet(F, o[i]) = <<>> THEN <<>>
                 ELSE Line(o[i], F.kv[o[i]])])

\* Form.String, its second loop ranging over the map in order o.
FormString(F, o) ==
  IF F.nil \/ FormLen(F) = 0 THEN <<>>
  ELSE Concat([i \in 1..Len(o) |-> Line(o[i], F.kv[o[i]])])

\* Loops of SignedForm.SignedFields: buffer after writing flds[i..], given
\* the buffer so far and the size n computed by the first loop.
RECURSIVE WriteFields(_, _, _, _)
WriteFields(flds, i, buf, n) ==
  IF i > Len(flds) THEN buf
  ELSE LET b1 == buf \o flds[i]
           b2 == IF Len(b1) < n THEN Append(b1, comma) ELSE b1
       IN  WriteFields(flds, i + 1, b2, n)

RECURSIVE SumLen(_)
SumLen(ss) == IF ss = <<>> THEN 0 ELSE Len(Head(ss)) + SumLen(Tail(ss))

\* Variant of SignedFields that sizes the buffer for one comma per name.
SignedFieldsCommaPerName(flds) ==
  IF Len(flds) = 0 THEN <<>>
  ELSE WriteFields(flds, 1, <<>>, SumLen(flds) + 1 * Len(flds))

\* SignedForm.SignedFields
SignedFieldsOf(flds) ==
  IF Len(flds) = 0 THEN <<>>
  ELSE WriteFields(flds, 1, <<>>, SumLen(flds) + 1 * (Len(flds) - 1))

\* One line written by the second loop of SignedForm.SignedString.
SignedLine(F, k) == prefix \o k \o <<colon>> \o FormGet(F, k) \o newline

\* First loop of SignedForm.SignedString: does it return "" early?
MissingField(F, flds) ==
  \E i \in 1..Len(flds) :
    flds[i] \notin DOMAIN F.kv \/ Len(F.kv[flds[i]]) = 0

\* Variant of SignedString that ranges over the map and emits the listed keys.
SignedStringByMap(F, flds) ==
  IF F.nil \/ FormLen(F) = 0 THEN <<>>
  ELSE IF MissingField(F, flds) THEN <<>>
  ELSE LET listed == {k \in DOMAIN F.kv : \E i \in 1..Len(flds) : flds[i] = k}
           o == CHOOSE x \in [1..Cardinality(listed) -> listed] :
                  \A i, j \in DOMAIN x : i # j => x[i] # x[j]
       IN  Concat([i \in 1..Len(o) |-> SignedLine(F, o[i])])

\* Variant of SignedString without the early return of the first loop.
SignedStringPartial(F, flds) ==
  IF F.nil \/ FormLen(F) = 0 THEN <<>>
  ELSE Concat([i \in 1..Len(flds) |-> SignedLine(F, flds[i])])

\* SignedForm.SignedString
SignedStringOf(F, flds) ==
  IF F.nil \/ FormLen(F) = 0 THEN <<>>
  ELSE IF MissingField(F, flds) THEN <<>>
  ELSE Concat([i \in 1..Len(flds) |-> SignedLine(F, flds[i])])

-----------------------------------------------------------------------------
(* One action per method call.  A call made after a panic never happens.   *)

\* f.Get(key)
Get(key) ==
  /\ ~panicked
  /\ op' = "Get"
  /\ arg' = key
  /\ ret' = FormGet(f, key)
  /\ err' = "nil"
  /\ prev' = {}
  /\ UNCHANGED <<f, Fields, panicked, lastSet>>

\* f.Set(key, value): assignment to an entry of a nil map panics.
Set(key, value) ==
  /\ ~panicked
  /\ op' = "Set"
  /\ arg' = <<>>
  /\ ret' = <<>>
  /\ err' = "nil"
  /\ prev' = {}
  /\ IF f.nil
       THEN /\ panicked' = TRUE
            /\ UNCHANGED <<f, lastSet>>
       ELSE /\ f' = [f EXCEPT !.kv = Put(f.kv, key, value)]
            /\ lastSet' = [k \in (DOMAIN lastSet) \cup {key} |->
                             IF k = key THEN value ELSE lastSet[k]]
            /\ UNCHANGED panicked
  /\ UNCHANGED Fields

\* f.Del(key): delete on a nil map is a no-op.
Del(key) ==
  /\ ~panicked
  /\ op' = "Del"
  /\ arg' = <<>>
  /\ ret' = <<>>
  /\ err' = "nil"
  /\ prev' = {}
  /\ f' = [f EXCEPT !.kv = Remove(f.kv, key)]
  /\ lastSet' = [k \in (DOMAIN lastSet) \ {key} |-> lastSet[k]]
  /\ UNCHANGED <<Fields, panicked>>

\* f.Validate()
Validate ==
  /\ ~panicked
  /\ op' = "Validate"
  /\ arg' = <<>>
  /\ ret' = <<>>
  /\ \E o \in Orders(f.kv) : err' = FormValidate(f, o)
  /\ prev' = {}
  /\ UNCHANGED <<f, Fields, panicked, lastSet>>

\* f.String()
String ==
  /\ ~panicked
  /\ op' = "String"
  /\ arg' = <<>>
  /\ \E o \in Orders(f.kv) : ret' = FormString(f, o)
  /\ err' = "nil"
  /\ prev' = IF op = "String" THEN {ret} ELSE {}
  /\ UNCHANGED <<f, Fields, panicked, lastSet>>

\* s.SignedFields()
SignedFields ==
  /\ ~panicked
  /\ op' = "SignedFields"
  /\ arg' = <<>>
  /\ ret' = SignedFieldsOf(Fields)
  /\ err' = "nil"
  /\ prev' = {}
  /\ UNCHANGED <<f, Fields, panicked, lastSet>>

\* Variant of s.SignedString() that drops the fields it cannot sign from
\* the list.
SignedStringPrunes ==
  /\ ~panicked
  /\ op' = "SignedString"
  /\ arg' = <<>>
  /\ ret' = SignedStringOf(f, Fields)
  /\ err' = "nil"
  /\ prev' = {}
  /\ Fields' = SelectSeq(Fields, LAMBDA k : FormGet(f, k) # <<>>)
  /\ UNCHANGED <<f, panicked, lastSet>>

\* s.SignedString()
SignedString ==
  /\ ~panicked
  /\ op' = "SignedString"
  /\ arg' = <<>>
  /\ ret' = SignedStringOf(f, Fields)
  /\ err' = "nil"
  /\ prev' = {}
  /\ UNCHANGED <<f, Fields, panicked, lastSet>>

-----------------------------------------------------------------------------
(* Inputs.                                                                 *)

\* 'a', ' ', ':', '\n', and the byte 0xFF, which occurs in no UTF-8 string.
Bytes == {97, 32, 58, 10, 255}

\* 'a', 'b'
Letters == {97, 98}

ByteStrs(bytes) == [n \in 0..bytes |-> StrsUpTo(Bytes, n)]

\* The maps of at most `entries` entries and `bytes` bytes over the strings S.
RECURSIVE MapsUpTo(_, _, _)
MapsUpTo(S, bytes, entries) ==
  IF entries = 0 THEN {EmptyKV}
  ELSE LET M == MapsUpTo(S, bytes, entries - 1)
       IN  M \cup UNION { UNION { {Put(m, k, v) : v \in S[bytes - Cost(m) - Len(k)]}
                                  : k \in S[bytes - Cost(m)] \ DOMAIN m }
                          : m \in M }

\* The Forms of at most `entries` entries and `bytes` bytes, and the nil Form.
ByteForms(bytes, entries) ==
  {MakeForm(m) : m \in MapsUpTo(ByteStrs(bytes), bytes, entries)} \cup {NilForm}

\* Field names: the empty name and the names of one letter.
Names == {<<>>} \cup {<<b>> : b \in Letters}

FieldLists == UNION {[1..n -> Names] : n \in 0..MaxFields}

\* Field lists that also hold a name of two letters, which is no key of the
\* Forms in NameForms.
LongFieldLists == UNION {[1..n -> Names \cup {<<97, 98>>}] : n \in 0..MaxFields}

\* The maps of at most MaxEntries entries with keys and values in Names.
NameMaps ==
  UNION {[D -> Names] : D \in {X \in SUBSET Names : Cardinality(X) <= MaxEntries}}

NameForms == {MakeForm(m) : m \in NameMaps} \cup {NilForm}

-----------------------------------------------------------------------------
(* Specifications.                                                         *)

Fresh ==
  /\ op = "init"
  /\ arg = <<>>
  /\ ret = <<>>
  /\ err = "nil"
  /\ prev = {}
  /\ panicked = FALSE
  /\ lastSet = f.kv

\* A SignedForm over a nil or empty Form, then any calls of its methods.
Init ==
  /\ f \in {NilForm, MakeForm(EmptyKV)}
  /\ Fields \in FieldLists
  /\ Fresh

Next ==
  \/ \E k \in Names, v \in Names :
       /\ Cardinality(DOMAIN Put(f.kv, k, v)) <= MaxEntries
       /\ Set(k, v)
  \/ \E k \in Names : Del(k)
  \/ \E k \in Names : Get(k)
  \/ Validate
  \/ String
  \/ SignedFields
  \/ SignedString

Spec == Init /\ [][Next]_vars

\* Form.Validate and Form.String on any Form built as a literal.
InitForm ==
  /\ f \in ByteForms(MaxBytes, MaxEntries)
  /\ Fields = <<>>
  /\ Fresh

NextForm ==
  \/ Validate
  \/ String

SpecForm == InitForm /\ [][NextForm]_vars

\* SignedFields and SignedString on any SignedForm built as a literal.
InitSigned ==
  /\ f \in NameForms
  /\ Fields \in LongFieldLists
  /\ Fresh

NextSigned ==
  \/ SignedFields
  \/ SignedString

SpecSigned == InitSigned /\ [][NextSigned]_vars

-----------------------------------------------------------------------------
(* Signed-subset serialization (specification SpecSigned).                *)

\* Every listed field is an entry of the Form with a non-empty value.
AllListedPresent ==
  \A i \in 1..Len(Fields) :
    Fields[i] \in DOMAIN f.kv /\ f.kv[Fields[i]] # <<>>

\* "openid." + name + ":" + value + "\n" for each name of the list, in order.
RECURSIVE SignedLines(_, _)
SignedLines(names, m) ==
  IF names = <<>> THEN <<>>
  ELSE <<111, 112, 101, 110, 105, 100, 46>> \o Head(names) \o <<58>>
         \o m[Head(names)] \o <<10>> \o SignedLines(Tail(names), m)

\* C1: when the Form is non-empty and every listed field is present with a
\* non-empty value, SignedString returns the lines "openid." name ":" value
\* "\n" of the listed fields in the order of the Fields list, a repeated
\* field repeated; the result is a function of the list and of the values
\* looked up, not of the order of the map nor of its other keys.
C1_SignedStringInListOrder ==
  (op = "SignedString" /\ ~f.nil /\ DOMAIN f.kv # {} /\ AllListedPresent)
    => ret = SignedLines(Fields, f.kv)

\* Two different fields are signed, the second-listed one first.
C1_Witness ==
  /\ op = "SignedString"
  /\ AllListedPresent
  /\ Len(Fields) = 2
  /\ Fields[1] # Fields[2]
  /\ f.kv[Fields[1]] # f.kv[Fields[2]]
  /\ ret = SignedLines(<<Fields[1]>>, f.kv) \o SignedLines(<<Fields[2]>>, f.kv)

\* C2: SignedString is all-or-nothing: a nil or empty Form, or a listed
\* field that is absent or has an empty value, gives the empty string, never
\* the lines of the other fields.
C2_SignedStringAllOrNothing ==
  (op = "SignedString" /\ (f.nil \/ DOMAIN f.kv = {} \/ ~AllListedPresent))
    => ret = <<>>

\* The first listed field is present, the second is not: nothing is returned.
C2_Witness ==
  /\ op = "SignedString"
  /\ Len(Fields) = 2
  /\ Fields[1] \in DOMAIN f.kv /\ f.kv[Fields[1]] # <<>>
  /\ Fields[2] \notin DOMAIN f.kv
  /\ ret = <<>>

\* The names joined by "," between each adjacent pair.
RECURSIVE CommaJoin(_)
CommaJoin(names) ==
  IF names = <<>> THEN <<>>
  ELSE IF Len(names) = 1 THEN Head(names)
  ELSE Head(names) \o <<44>> \o CommaJoin(Tail(names))

\* C3: SignedFields returns the names of the Fields list in list order with
\* one comma between adjacent names: len(Fields)-1 commas, none leading, none
\* trailing, and "" for the empty list; also for empty and repeated names,
\* and whatever the Form holds.
C3_SignedFieldsCommaJoined ==
  op = "SignedFields" =>
    /\ ret = CommaJoin(Fields)
    /\ Len(Fields) = 0 => ret = <<>>
    /\ Len(Fields) > 0 =>
         Cardinality({i \in 1..Len(ret) : ret[i] = 44}) = Len(Fields) - 1

\* A list of two names that ends with the empty name.
C3_Witness ==
  /\ op = "SignedFields"
  /\ Len(Fields) = 2
  /\ Fields[1] # <<>>
  /\ Fields[2] = <<>>
  /\ ret = Fields[1] \o <<44>>

-----------------------------------------------------------------------------
(* Validation and plain serialization (specification SpecForm).             *)

\* The UTF-8 encoding of a code point below U+10000.
EncodeRune(r) ==
  IF r < 128 THEN <<r>>
  ELSE IF r < 2048 THEN <<192 + (r \div 64), 128 + (r % 64)>>
  ELSE <<224 + (r \div 4096), 128 + ((r \div 64) % 64), 128 + (r % 64)>>

\* The white space characters of Unicode.
WhiteSpace ==
  {9, 10, 11, 12, 13, 32, 133, 160, 5760, 8232, 8233, 8239, 8287, 12288}
    \cup (8192..8202)

BeginsWithSpace(s) ==
  \E r \in WhiteSpace :
    LET e == EncodeRune(r) IN Len(e) <= Len(s) /\ SubSeq(s, 1, Len(e)) = e

EndsWithSpace(s) ==
  \E r \in WhiteSpace :
    LET e == EncodeRune(r)
    IN  Len(e) <= Len(s) /\ SubSeq(s, Len(s) - Len(e) + 1, Len(s)) = e

\* The rules of the format for one entry.
WellFormed(k, v) ==
  /\ v # <<>>
  /\ ValidString(k)
  /\ ValidString(v)
  /\ \A i \in 1..Len(k) : k[i] # 58 /\ k[i] # 10
  /\ ~BeginsWithSpace(k)
  /\ ~EndsWithSpace(k)
  /\ ~BeginsWithSpace(v)
  /\ ~EndsWithSpace(v)

AllWellFormed == \A k \in DOMAIN f.kv : WellFormed(k, f.kv[k])

RECURSIVE PlainLines(_, _)
PlainLines(o, m) ==
  IF o = <<>> THEN <<>>
  ELSE Head(o) \o <<58>> \o m[Head(o)] \o <<10>> \o PlainLines(Tail(o), m)

\* The arrangements of the keys of m, each key once.
Arrangements(m) ==
  {o \in [1..Cardinality(DOMAIN m) -> DOMAIN m] :
     \A k \in DOMAIN m : Cardinality({i \in DOMAIN o : o[i] = k}) = 1}

RECURSIVE EntryBytes(_, _)
EntryBytes(K, m) ==
  IF K = {} THEN 0
  ELSE LET k == CHOOSE x \in K : TRUE
       IN  Len(k) + Len(m[k]) + 2 + EntryBytes(K \ {k}, m)

\* C5: String never fails and does not validate: "" for a nil or empty map,
\* and otherwise, for valid and invalid maps alike, the lines key ":" value
\* "\n" of all entries, each once, in some order, so that the length is the
\* sum over the entries of len(key) + len(value) + 2.
C5_StringEmitsEveryEntryOnce ==
  op = "String" =>
    /\ ~panicked
    /\ (f.nil \/ DOMAIN f.kv = {}) => ret = <<>>
    /\ \E o \in Arrangements(f.kv) : ret = PlainLines(o, f.kv)
    /\ Len(ret) = EntryBytes(DOMAIN f.kv, f.kv)
    /\ Len(ret) = StringSize(f)

\* String on a two-entry map that Validate rejects for an empty value.
C5_Witness ==
  /\ op = "String"
  /\ Cardinality(DOMAIN f.kv) = 2
  /\ \E k \in DOMAIN f.kv : f.kv[k] = <<>>
  /\ ret # <<>>

\* C6: two calls of String on the same unmodified map return the same string.
C6_StringIdempotent ==
  (op = "String" /\ prev # {}) => prev = {ret}

\* The segments of s that end at each newline, and what follows the last one.
RECURSIVE SplitLines(_, _)
SplitLines(s, cur) ==
  IF s = <<>> THEN (IF cur = <<>> THEN <<>> ELSE <<cur>>)
  ELSE IF Head(s) = 10 THEN <<cur>> \o SplitLines(Tail(s), <<>>)
  ELSE SplitLines(Tail(s), Append(cur, Head(s)))

HasColon(l) == \E i \in 1..Len(l) : l[i] = 58

FirstColon(l) == CHOOSE i \in 1..Len(l) : l[i] = 58 /\ \A j \in 1..(i - 1) : l[j] # 58

\* The key/value pairs a parser reads: each line split at its first colon.
ParsePairs(s) ==
  LET ls == SplitLines(s, <<>>)
  IN  {<<SubSeq(ls[i], 1, FirstColon(ls[i]) - 1),
         SubSeq(ls[i], FirstColon(ls[i]) + 1, Len(ls[i]))>> :
         i \in {j \in 1..Len(ls) : HasColon(ls[j])}}

\* Parsing s recovers the map m: one line per entry, every line an entry.
ParsesTo(s, m) ==
  LET ls == SplitLines(s, <<>>)
  IN  /\ Len(ls) = Cardinality(DOMAIN m)
      /\ \A i \in 1..Len(ls) : HasColon(ls[i])
      /\ ParsePairs(s) = {<<k, m[k]>> : k \in DOMAIN m}

\* C7: the output of String for a non-empty map that Validate accepts is one
\* line key ":" value "\n" per entry, and parsing it (lines at each newline,
\* each line split at its first colon) gives back the map.
C7_RoundTrip ==
  (op = "String" /\ ~f.nil /\ DOMAIN f.kv # {}
     /\ \A o \in Orders(f.kv) : FormValidate(f, o) = "nil")
    => ParsesTo(ret, f.kv)

-----------------------------------------------------------------------------
(* The accessors (specification Spec).                                      *)

\* C8: Get, Set and Del complete normally on every Form, the nil Form too.
C8_AccessorsNeverPanic == ~panicked

\* The value the history gives to key k: "" when no Set of k is in effect.
HistValue(k) == IF k \in DOMAIN lastSet THEN lastSet[k] ELSE <<>>

\* C9: the entries of the Form are exactly the Sets still in effect (the most
\* recent Set of each key not followed by its Del: Set overwrites, Del of an
\* absent key and operations on other keys change nothing); Get returns that
\* value, and "" both when there is none and when it is ""; a key set to ""
\* is still an entry, which Validate rejects and String emits.
C9_GetReturnsLastSet ==
  /\ f.kv = lastSet
  /\ \A k \in Names : FormGet(f, k) = HistValue(k)
  /\ op = "Get" => ret = HistValue(arg)
  /\ (op = "Validate" /\ \E k \in DOMAIN lastSet : lastSet[k] = <<>>)
       => err # "nil"
  /\ op = "String" => Len(ret) = EntryBytes(DOMAIN lastSet, lastSet)

\* Get of a key that was set to "" while another key holds a value.
C9_Witness ==
  /\ op = "Get"
  /\ arg \in DOMAIN lastSet
  /\ lastSet[arg] = <<>>
  /\ ret = <<>>
  /\ \E k \in DOMAIN lastSet : lastSet[k] # <<>>

ReadOps == {"Get", "Validate", "String", "SignedFields", "SignedString"}

\* C10: Get, Validate, String, SignedFields and SignedString leave the
\* entries of the map and the Fields list as they were, whatever they return.
C10_ReadOnly ==
  [][op' \in ReadOps => (f' = f /\ Fields' = Fields)]_vars

\* SignedString has returned "" for a non-empty Form and a non-empty list.
C10_Witness ==
  /\ op = "SignedString"
  /\ ret = <<>>
  /\ Fields # <<>>
  /\ DOMAIN f.kv # {}

-----------------------------------------------------------------------------
(* The empty key (specification SpecForm).                                 *)

\* The Form has one entry, its key is "" and its value satisfies the rules
\* for values.
OnlyEmptyKey ==
  /\ ~f.nil
  /\ DOMAIN f.kv = {<<>>}
  /\ f.kv[<<>>] # <<>>
  /\ ValidString(f.kv[<<>>])
  /\ ~BeginsWithSpace(f.kv[<<>>])
  /\ ~EndsWithSpace(f.kv[<<>>])

\* C11: Validate has no rule against the empty key: a map whose only entry
\* has the key "" and a value that satisfies the rules for values is accepted
\* by Validate, and String returns ":" value "\n" for it.
C11_EmptyKeyAccepted ==
  /\ (op = "Validate" /\ OnlyEmptyKey) => err = "nil"
  /\ (op = "String" /\ OnlyEmptyKey) => ret = <<58>> \o f.kv[<<>>] \o <<10>>

\* Validate has accepted a map whose only key is "".
C11_Witness ==
  /\ op = "Validate"
  /\ OnlyEmptyKey
  /\ err = "nil"

====
